---- MODULE Spec2Model ----
(***************************************************************************)
(* A model of the study-tracking backend in server.py: the four document   *)
(* store collections (users, subjects, grades, study_sessions), the        *)
(* request handlers that read and write them, and the motivational phrase  *)
(* provider.  Every store call awaited by a handler is one step, so that   *)
(* concurrent requests interleave between their store calls exactly as the *)
(* coroutines of the event loop do.                                        *)
(*                                                                         *)
(* get_current_user (one find_one on users by the token's username) is     *)
(* taken together with the first store call of the handler it guards:      *)
(* users are never deleted or renamed and inserts append, so the first     *)
(* user with a given username is the same at both calls.                   *)
(*                                                                         *)
(* resp is the response delivered by the last step, if that step ended a   *)
(* single-call handler; the outcome of a handler of several store calls is *)
(* the final pc of its request.                                            *)
(*                                                                         *)
(* Left out, as they write nothing: login, POST /motivational-phrase, and  *)
(* of the dashboard average_grade and the constant upcoming_goals.  A user *)
(* id is the number of the registration that created the user, a subject   *)
(* id the number of the subject among those ever created (both are fresh   *)
(* uuid4 values in the code); a document is told from its equals by its    *)
(* place in the collection.                                                *)
(***************************************************************************)
EXTENDS Integers, Sequences, FiniteSets

\* ---------------------------------------------------------------- bounds
MaxRegs == 2
MaxReq == 2
MaxSubjects == 2
MaxNow == 2
\* clock ticks in a day
DayLen == 2

\* ------------------------------------------------------ program constants
PageSize == 100
WeeklyCap == 1000
RecentLimit == 5
WeekDays == 7

Regs == 1..MaxRegs
Reqs == 1..MaxReq
SubjectIds == 1..MaxSubjects
\* Usernames and e-mail addresses, numbered.
Names == {1, 2}
Emails == {1, 2}
\* The first user, the first request slot.
One == {1}
SubjectNames == {"math"}
Durations == {-1, 29, 30, 59, 60}
ProviderOutcomes == {"text", "empty", "error", "hang"}

VARIABLES now, users, subjects, grades, sessions, issued, regs, reqs, resp

vars == <<now, users, subjects, grades, sessions, issued, regs, reqs, resp>>
store == <<users, subjects, grades, sessions>>

\* ------------------------------------------------------------- helpers
RECURSIVE SumField(_, _)
SumField(docs, field) ==
    IF docs = <<>> THEN 0 ELSE Head(docs)[field] + SumField(Tail(docs), field)

Take(docs, n) == IF Len(docs) <= n THEN docs ELSE SubSeq(docs, 1, n)

\* datetime.isoformat(): the value written to the store is a string.
isoformat(t) == [type |-> "string", v |-> t]
\* a datetime object handed to the driver is a BSON date.
bsondate(t) == [type |-> "date", v |-> t]
\* datetime.fromisoformat() of a stored string.
fromisoformat(d) == d.v

\* Range comparison of the store: $gte/$lt compare a field only with a query
\* value of the same BSON type.
InRange(d, lo, hi) == d.type = lo.type /\ d.type = hi.type /\ lo.v <= d.v /\ d.v < hi.v
AtLeast(d, lo) == d.type = lo.type /\ lo.v <= d.v

\* cursor.sort("date", -1): insertion sort, newest first; ties keep store order.
RECURSIVE InsertDesc(_, _)
InsertDesc(d, sorted) ==
    IF sorted = <<>> THEN <<d>>
    ELSE IF Head(sorted).date.v >= d.date.v THEN <<Head(sorted)>> \o InsertDesc(d, Tail(sorted))
    ELSE <<d>> \o sorted

RECURSIVE SortDesc(_)
SortDesc(docs) ==
    IF docs = <<>> THEN <<>>
    ELSE InsertDesc(docs[Len(docs)], SortDesc(SubSeq(docs, 1, Len(docs) - 1)))

\* --------------------------------------------------------- credentials
\* create_access_token({"sub": username}): the token names the username.
Token(p) == regs[p].username
Authed(p) == regs[p].pc = "registered"

\* db.users.find_one({"username": username}): the first matching document.
FindUser(us, username) ==
    LET idx == {i \in 1..Len(us) : us[i].username = username}
    IN  us[CHOOSE i \in idx : \A j \in idx : i <= j]

current_user(p) == FindUser(users, Token(p))

\* ------------------------------------------------------- store queries
\* db.users.find_one({"$or": [{"username": u}, {"email": e}]})
ExistingUser(us, username, email) ==
    \E i \in 1..Len(us) : us[i].username = username \/ us[i].email = email

\* A find_one whose filter names the subject alone.
FindSubjectAnyOwner(subjs, sid, uid) ==
    {i \in 1..Len(subjs) : subjs[i].id = sid}

\* db.subjects.find_one({"id": sid, "user_id": uid})
FindSubject(subjs, sid, uid) ==
    {i \in 1..Len(subjs) : subjs[i].id = sid /\ subjs[i].user_id = uid}

\* A delete_one whose filter names the owner alone.
DeleteOneOfOwner(subjs, sid, uid) ==
    LET hit == {i \in 1..Len(subjs) : subjs[i].user_id = uid}
    IN  IF hit = {} THEN subjs
        ELSE LET k == CHOOSE i \in hit : \A j \in hit : i <= j
             IN  SubSeq(subjs, 1, k - 1) \o SubSeq(subjs, k + 1, Len(subjs))

\* db.subjects.delete_one({"id": sid, "user_id": uid}): the first match goes.
DeleteOne(subjs, sid, uid) ==
    LET hit == FindSubject(subjs, sid, uid)
    IN  IF hit = {} THEN subjs
        ELSE LET k == CHOOSE i \in hit : \A j \in hit : i <= j
             IN  SubSeq(subjs, 1, k - 1) \o SubSeq(subjs, k + 1, Len(subjs))

\* credits_earned = (duration_minutes // 30) * 5   (floor division)
CreditsEarned(d) == (d \div 30) * 5

\* An update_one that writes the request's own totals ($set for $inc).
SetUser(us, uid, c, m) ==
    [i \in 1..Len(us) |->
        IF us[i].id = uid
        THEN [us[i] EXCEPT !.credits = c, !.total_study_minutes = m]
        ELSE us[i]]

\* db.users.update_one({"id": uid}, {"$inc": {...}})
IncUser(us, uid, c, m) ==
    [i \in 1..Len(us) |->
        IF us[i].id = uid
        THEN [us[i] EXCEPT !.credits = @ + c, !.total_study_minutes = @ + m]
        ELSE us[i]]

\* --------------------------------------------------------------- state
IdleReg == [pc |-> "idle", username |-> 0, email |-> 0]
IdleReq == [pc |-> "idle", kind |-> "none", user_id |-> 0, subject_id |-> 0,
            duration_minutes |-> 0, credits_earned |-> 0,
            motivational_phrases |-> <<>>, date |-> 0]
NoResp == [op |-> "none", p |-> 0, status |-> 0, body |-> <<>>,
           today_sessions |-> 0, today_minutes |-> 0, today_credits |-> 0,
           weekly_minutes |-> 0, total_subjects |-> 0]

Init ==
    /\ now = 0
    /\ users = <<>>
    /\ subjects = <<>>
    /\ grades = <<>>
    /\ sessions = <<>>
    /\ issued = 0
    /\ regs = [p \in Regs |-> IdleReg]
    /\ reqs = [r \in Reqs |-> IdleReq]
    /\ resp = NoResp

Tick ==
    /\ now < MaxNow
    /\ now' = now + 1
    /\ resp' = NoResp
    /\ UNCHANGED <<users, subjects, grades, sessions, issued, regs, reqs>>

\* ------------------------------------------------------------ register
RegisterLookup(p, username, email) ==
    /\ regs[p].pc = "idle"
    /\ IF p = 1 THEN TRUE ELSE regs[p - 1].pc # "idle"
    /\ regs' = [regs EXCEPT ![p] =
                  IF ExistingUser(users, username, email)
                  THEN [IdleReg EXCEPT !.pc = "dup400"]
                  ELSE [pc |-> "insert", username |-> username, email |-> email]]
    /\ resp' = NoResp
    /\ UNCHANGED <<now, users, subjects, grades, sessions, issued, reqs>>

RegisterInsert(p) ==
    /\ regs[p].pc = "insert"
    /\ users' = Append(users, [id |-> p, username |-> regs[p].username,
                               email |-> regs[p].email, credits |-> 0,
                               total_study_minutes |-> 0])
    /\ regs' = [regs EXCEPT ![p].pc = "registered"]
    /\ resp' = NoResp
    /\ UNCHANGED <<now, subjects, grades, sessions, issued, reqs>>

\* ------------------------------------------------------------ subjects
\* POST /subjects
create_subject(p, name) ==
    /\ Authed(p)
    /\ issued < MaxSubjects
    /\ LET subject == [id |-> issued + 1, user_id |-> current_user(p).id, name |-> name]
       IN  /\ subjects' = Append(subjects, subject)
           /\ resp' = [NoResp EXCEPT !.op = "create_subject", !.status = 200]
    /\ issued' = issued + 1
    /\ UNCHANGED <<now, users, grades, sessions, regs, reqs>>

\* GET /subjects
SubjectsOf(subjs, uid) == LET Mine(s) == s.user_id = uid IN Take(SelectSeq(subjs, Mine), PageSize)

get_subjects(p) ==
    /\ Authed(p)
    /\ resp' = [NoResp EXCEPT !.op = "get_subjects", !.p = p, !.status = 200,
                              !.body = SubjectsOf(subjects, current_user(p).id)]
    /\ UNCHANGED <<now, users, subjects, grades, sessions, issued, regs, reqs>>

\* DELETE /subjects/{subject_id}
delete_subject(p, sid) ==
    /\ Authed(p)
    /\ LET after == DeleteOne(subjects, sid, current_user(p).id)
           deleted_count == Len(subjects) - Len(after)
       IN  /\ subjects' = after
           /\ resp' = [NoResp EXCEPT !.op = "delete_subject",
                                     !.status = IF deleted_count = 0 THEN 404 ELSE 200]
    /\ UNCHANGED <<now, users, grades, sessions, issued, regs, reqs>>

\* -------------------------------------------------------------- grades
NextSlot(r) == reqs[r].pc = "idle" /\ (IF r = 1 THEN TRUE ELSE reqs[r - 1].pc # "idle")

\* POST /grades, up to the ownership check
GradeLookup(r, p, sid) ==
    /\ NextSlot(r)
    /\ Authed(p)
    /\ reqs' = [reqs EXCEPT ![r] =
                  IF FindSubject(subjects, sid, current_user(p).id) = {}
                  THEN [IdleReq EXCEPT !.pc = "notfound", !.kind = "grade",
                                       !.user_id = current_user(p).id, !.subject_id = sid]
                  ELSE [IdleReq EXCEPT !.pc = "ginsert", !.kind = "grade",
                                       !.user_id = current_user(p).id, !.subject_id = sid]]
    /\ resp' = NoResp
    /\ UNCHANGED <<now, users, subjects, grades, sessions, issued, regs>>

\* POST /grades, db.grades.insert_one
GradeInsert(r) ==
    /\ reqs[r].pc = "ginsert"
    /\ grades' = Append(grades, [user_id |-> reqs[r].user_id, subject_id |-> reqs[r].subject_id])
    /\ reqs' = [reqs EXCEPT ![r] = [IdleReq EXCEPT !.pc = "done", !.kind = "grade",
                                                   !.user_id = reqs[r].user_id]]
    /\ resp' = NoResp
    /\ UNCHANGED <<now, users, subjects, sessions, issued, regs>>

\* GET /grades
GradesOf(gs, uid) == LET Mine(g) == g.user_id = uid IN Take(SelectSeq(gs, Mine), PageSize)

get_grades(p) ==
    /\ Authed(p)
    /\ resp' = [NoResp EXCEPT !.op = "get_grades", !.p = p, !.status = 200,
                              !.body = GradesOf(grades, current_user(p).id)]
    /\ UNCHANGED <<now, users, subjects, grades, sessions, issued, regs, reqs>>

\* ------------------------------------------------------ study sessions
\* POST /study-sessions, up to the ownership check and the credit rule
SessionLookup(r, p, sid, d) ==
    /\ NextSlot(r)
    /\ Authed(p)
    /\ reqs' = [reqs EXCEPT ![r] =
                  IF FindSubject(subjects, sid, current_user(p).id) = {}
                  THEN [IdleReq EXCEPT !.pc = "notfound", !.kind = "session",
                                       !.user_id = current_user(p).id, !.subject_id = sid]
                  ELSE [IdleReq EXCEPT !.pc = "phrase", !.kind = "session",
                                       !.user_id = current_user(p).id, !.subject_id = sid,
                                       !.duration_minutes = d,
                                       !.credits_earned = CreditsEarned(d)]]
    /\ resp' = NoResp
    /\ UNCHANGED <<now, users, subjects, grades, sessions, issued, regs>>

\* generate_motivational_phrase: what the awaited provider call comes to.
\* "hang" is the provider never answering: the await has no timeout.
\* The text of a phrase is left out: the stripped response, the literal
\* returned for an empty response and the random.choice of default_phrases
\* after an exception are each one string.
PhraseResult(outcome) == IF outcome \in {"text", "empty", "error"} THEN "phrase" ELSE "none"

\* POST /study-sessions: await the phrase, then build the StudySession (its
\* date defaults to the current time).
Phrase(r, outcome) ==
    /\ reqs[r].pc = "phrase"
    /\ IF outcome = "hang"
       THEN reqs' = [reqs EXCEPT ![r] = [IdleReq EXCEPT !.pc = "hung", !.kind = "session",
                                                        !.user_id = reqs[r].user_id]]
       ELSE reqs' = [reqs EXCEPT ![r].pc = "update",
                                 ![r].motivational_phrases = <<PhraseResult(outcome)>>,
                                 ![r].date = now]
    /\ resp' = NoResp
    /\ UNCHANGED <<now, users, subjects, grades, sessions, issued, regs>>

\* POST /study-sessions: db.users.update_one with $inc
Update(r) ==
    /\ reqs[r].pc = "update"
    /\ users' = IncUser(users, reqs[r].user_id, reqs[r].credits_earned,
                        reqs[r].duration_minutes)
    /\ reqs' = [reqs EXCEPT ![r].pc = "insert"]
    /\ resp' = NoResp
    /\ UNCHANGED <<now, subjects, grades, sessions, issued, regs>>

SessionDoc(q) ==
    [user_id |-> q.user_id, subject_id |-> q.subject_id,
     duration_minutes |-> q.duration_minutes, credits_earned |-> q.credits_earned,
     date |-> isoformat(q.date), motivational_phrases |-> q.motivational_phrases]

\* POST /study-sessions: db.study_sessions.insert_one
Insert(r) ==
    /\ reqs[r].pc = "insert"
    /\ sessions' = Append(sessions, SessionDoc(reqs[r]))
    /\ reqs' = [reqs EXCEPT ![r] = [IdleReq EXCEPT !.pc = "done", !.kind = "session",
                                                   !.user_id = reqs[r].user_id]]
    /\ resp' = NoResp
    /\ UNCHANGED <<now, users, subjects, grades, issued, regs>>

\* A store call of a request in flight raises: the handler ends with a 500
\* and whatever it has already written stays.
StoreFails(r) ==
    /\ reqs[r].pc \in {"ginsert", "update", "insert"}
    /\ reqs' = [reqs EXCEPT ![r] =
                  [IdleReq EXCEPT !.pc = "failed_" \o reqs[r].pc, !.kind = reqs[r].kind,
                                  !.user_id = reqs[r].user_id]]
    /\ resp' = NoResp
    /\ UNCHANGED <<now, users, subjects, grades, sessions, issued, regs>>

\* GET /study-sessions
SessionsOf(ss, uid) ==
    LET Mine(s) == s.user_id = uid
        Parse(s) == [s EXCEPT !.date = fromisoformat(s.date)]
        found == Take(SortDesc(SelectSeq(ss, Mine)), PageSize)
    IN  [i \in 1..Len(found) |-> Parse(found[i])]

get_study_sessions(p) ==
    /\ Authed(p)
    /\ resp' = [NoResp EXCEPT !.op = "get_study_sessions", !.p = p, !.status = 200,
                              !.body = SessionsOf(sessions, current_user(p).id)]
    /\ UNCHANGED <<now, users, subjects, grades, sessions, issued, regs, reqs>>

\* ------------------------------------------------------------- profile
get_profile(p) ==
    /\ Authed(p)
    /\ resp' = [NoResp EXCEPT !.op = "get_profile", !.p = p, !.status = 200,
                              !.body = <<current_user(p)>>]
    /\ UNCHANGED <<now, users, subjects, grades, sessions, issued, regs, reqs>>

\* ----------------------------------------------------------- dashboard
\* The sessions of uid dated today: the filter of both "today" queries.
TodayDocs(ss, uid, t) ==
    LET today == t \div DayLen
        lo == bsondate(today * DayLen)
        hi == bsondate((today + 1) * DayLen)
        Hit(s) == s.user_id = uid /\ InRange(s.date, lo, hi)
    IN  SelectSeq(ss, Hit)

WeeklyDocs(ss, uid, t) ==
    LET week_ago == bsondate(t - WeekDays * DayLen)
        Hit(s) == s.user_id = uid /\ AtLeast(s.date, week_ago)
    IN  Take(SelectSeq(ss, Hit), WeeklyCap)

\* db.subjects.find_one({"id": subject_id}): no owner in the filter.
SubjectName(subjs, sid) ==
    LET hit == {i \in 1..Len(subjs) : subjs[i].id = sid}
    IN  IF hit = {} THEN "Unknown"
        ELSE subjs[CHOOSE i \in hit : \A j \in hit : i <= j].name

RecentSessions(ss, subjs, uid) ==
    LET Mine(s) == s.user_id = uid
        found == Take(SortDesc(SelectSeq(ss, Mine)), RecentLimit)
    IN  [i \in 1..Len(found) |->
            [subject_name |-> SubjectName(subjs, found[i].subject_id),
             duration_minutes |-> found[i].duration_minutes,
             date |-> found[i].date.v \div DayLen,
             credits_earned |-> found[i].credits_earned]]

get_dashboard_data(p) ==
    /\ Authed(p)
    /\ LET uid == current_user(p).id
           today_sessions_data == Take(TodayDocs(sessions, uid, now), PageSize)
       IN  resp' = [NoResp EXCEPT
                      !.op = "get_dashboard_data", !.p = p, !.status = 200,
                      !.today_sessions = Len(TodayDocs(sessions, uid, now)),
                      !.today_minutes = SumField(today_sessions_data, "duration_minutes"),
                      !.today_credits = SumField(today_sessions_data, "credits_earned"),
                      !.weekly_minutes =
                          SumField(WeeklyDocs(sessions, uid, now), "duration_minutes"),
                      !.total_subjects = Len(SubjectsOf(subjects, uid)),
                      !.body = RecentSessions(sessions, subjects, uid)]
    /\ UNCHANGED <<now, users, subjects, grades, sessions, issued, regs, reqs>>

\* ------------------------------------------------------ specifications
\* Study sessions: one user registers, creates subjects and records
\* sessions, MaxReq of them in flight at once.
Next ==
    \/ \E p \in One : RegisterLookup(p, p, p)
    \/ \E p \in One : RegisterInsert(p)
    \/ \E p \in One, n \in SubjectNames : create_subject(p, n)
    \/ \E r \in Reqs, p \in One, sid \in SubjectIds, d \in Durations : SessionLookup(r, p, sid, d)
    \/ \E r \in Reqs, o \in ProviderOutcomes : Phrase(r, o)
    \/ \E r \in Reqs : Update(r)
    \/ \E r \in Reqs : Insert(r)
    \/ \E r \in Reqs : StoreFails(r)

Spec == Init /\ [][Next]_vars

\* The same, every step of a handler that can run being run in the end: the
\* event loop resumes a coroutine whose awaited call has returned or raised.
LiveSpec ==
    /\ Spec
    /\ \A r \in Reqs :
         /\ WF_vars(\E o \in ProviderOutcomes : Phrase(r, o))
         /\ WF_vars(Update(r) \/ StoreFails(r))
         /\ WF_vars(Insert(r) \/ StoreFails(r))

\* Subjects: users with distinct names create and delete subjects while one
\* grade or session request is in flight.
SubjectNext ==
    \/ \E p \in Regs : RegisterLookup(p, p, p)
    \/ \E p \in Regs : RegisterInsert(p)
    \/ \E p \in Regs, n \in SubjectNames : create_subject(p, n)
    \/ \E p \in Regs, sid \in SubjectIds : delete_subject(p, sid)
    \/ \E r \in One, p \in Regs, sid \in SubjectIds : GradeLookup(r, p, sid)
    \/ \E r \in One : GradeInsert(r)
    \/ \E r \in One, p \in Regs, sid \in SubjectIds, d \in Durations : SessionLookup(r, p, sid, d)
    \/ \E r \in One, o \in ProviderOutcomes : Phrase(r, o)
    \/ \E r \in One : Update(r)
    \/ \E r \in One : Insert(r)
    \/ \E r \in One : StoreFails(r)

SubjectSpec == Init /\ [][SubjectNext]_vars

\* Reads: registrations with any name and address, racing; one grade or
\* session request; the clock; and the reading handlers.
ReadNext ==
    \/ Tick
    \/ \E p \in Regs, u \in Names, e \in Emails : RegisterLookup(p, u, e)
    \/ \E p \in Regs : RegisterInsert(p)
    \/ \E p \in Regs, n \in SubjectNames : create_subject(p, n)
    \/ \E r \in One, p \in Regs, sid \in SubjectIds : GradeLookup(r, p, sid)
    \/ \E r \in One : GradeInsert(r)
    \/ \E r \in One, p \in Regs, sid \in SubjectIds, d \in Durations : SessionLookup(r, p, sid, d)
    \/ \E r \in One, o \in ProviderOutcomes : Phrase(r, o)
    \/ \E r \in One : Update(r)
    \/ \E r \in One : Insert(r)
    \/ \E p \in Regs : get_subjects(p)
    \/ \E p \in Regs : get_grades(p)
    \/ \E p \in Regs : get_study_sessions(p)
    \/ \E p \in Regs : get_profile(p)
    \/ \E p \in Regs : get_dashboard_data(p)

ReadSpec == Init /\ [][ReadNext]_vars

\* ================================================================ claims
UserIdx == 1..Len(users)
Owns(uid, sid) == \E k \in 1..Len(subjects) : subjects[k].id = sid /\ subjects[k].user_id = uid
Without(q, k) == SubSeq(q, 1, k - 1) \o SubSeq(q, k + 1, Len(q))

\* The sum of a field over the documents of one user.
RECURSIVE SumOver(_, _, _)
SumOver(docs, user_id, field) ==
    IF docs = <<>> THEN 0
    ELSE (IF Head(docs).user_id = user_id THEN Head(docs)[field] ELSE 0)
         + SumOver(Tail(docs), user_id, field)

\* Every create-session request of user uid that was started has returned
\* (the session, or the 404 of the ownership check).
AllCompleted(uid) ==
    \A r \in Reqs :
        (reqs[r].kind = "session" /\ reqs[r].user_id = uid) => reqs[r].pc \in {"done", "notfound"}

CountersMatch(i) ==
    /\ users[i].credits = SumOver(sessions, users[i].id, "credits_earned")
    /\ users[i].total_study_minutes = SumOver(sessions, users[i].id, "duration_minutes")

\* C1: once all create-session requests of a user have completed, whatever
\* the interleaving of their store calls, the user's credits is the sum of
\* credits_earned over the user's persisted sessions, total_study_minutes is
\* the sum of their duration_minutes, and every persisted session has
\* credits_earned = (duration_minutes div 30) * 5.
C1_CountersAfterCompletion ==
    \A i \in UserIdx :
        AllCompleted(users[i].id) =>
            /\ CountersMatch(i)
            /\ \A k \in 1..Len(sessions) :
                   sessions[k].credits_earned = (sessions[k].duration_minutes \div 30) * 5

\* Two requests of one user ran to completion and persisted two sessions that
\* earned credits.
C1_Witness ==
    /\ \A r \in Reqs : reqs[r].kind = "session" /\ reqs[r].pc = "done"
    /\ Len(sessions) >= 2
    /\ \E i \in UserIdx : AllCompleted(users[i].id) /\ users[i].credits >= 10

\* C2: in every reachable state, between the store calls of a request in
\* progress and after a failed store call included, each user's credits and
\* total_study_minutes are the sums over the user's persisted sessions.
C2_CountersAlways == \A i \in UserIdx : CountersMatch(i)

\* C3: no two persisted users share a username and no two share an email,
\* under every interleaving of register requests.
C3_UniqueUsers ==
    \A i \in UserIdx : \A j \in UserIdx :
        i # j => (users[i].username # users[j].username /\ users[i].email # users[j].email)

\* C4: no step decreases a user's credits or a user's total_study_minutes.
C4_CountersNeverDecrease ==
    [][\A i \in UserIdx :
          /\ users'[i].credits >= users[i].credits
          /\ users'[i].total_study_minutes >= users[i].total_study_minutes]_vars

\* C5: at the step that persists a Grade or a StudySession, a Subject with
\* the record's subject_id and user_id is in the store.
C5_SubjectExistsAtWrite ==
    [][/\ (Len(grades') > Len(grades)) =>
            Owns(grades'[Len(grades')].user_id, grades'[Len(grades')].subject_id)
       /\ (Len(sessions') > Len(sessions)) =>
            Owns(sessions'[Len(sessions')].user_id, sessions'[Len(sessions')].subject_id)]_vars

\* C6: a create-session request that has passed the ownership check comes to
\* an end whatever the phrase provider does: it returns its session, or a
\* store call of its own fails.
C6_SessionTerminates ==
    \A r \in Reqs :
        (reqs[r].pc = "phrase") ~> (reqs[r].pc \in {"done", "failed_update", "failed_insert"})

\* C7: a create-grade, create-session or delete-subject request whose
\* subject_id names no Subject of the caller answers 404 and leaves users,
\* subjects, grades and sessions as they were; the request is over, so the
\* phrase provider is never called for it.  Stated per step: a step of one of
\* the three handlers either is such an answer, or is the step of no caller
\* and subject_id without ownership.
NotOwned(p, sid) == Authed(p) /\ ~Owns(current_user(p).id, sid)

C7_NotFoundChangesNothing ==
    [][/\ \A r \in Reqs :
            (reqs[r].pc = "idle" /\ reqs'[r].kind = "grade") =>
                \/ reqs'[r].pc = "notfound" /\ UNCHANGED store
                \/ \A p \in Regs, sid \in SubjectIds :
                       ~(NotOwned(p, sid) /\ GradeLookup(r, p, sid))
       /\ \A r \in Reqs :
            (reqs[r].pc = "idle" /\ reqs'[r].kind = "session") =>
                \/ reqs'[r].pc = "notfound" /\ UNCHANGED store
                \/ \A p \in Regs, sid \in SubjectIds, d \in Durations :
                       ~(NotOwned(p, sid) /\ SessionLookup(r, p, sid, d))
       /\ (resp'.op = "delete_subject") =>
                \/ resp'.status = 404 /\ UNCHANGED store
                \/ \A p \in Regs, sid \in SubjectIds :
                       ~(NotOwned(p, sid) /\ delete_subject(p, sid))
       /\ \A r \in Reqs : reqs[r].pc = "notfound" => reqs'[r] = reqs[r]]_vars

\* A create-session request for a subject that exists and belongs to another
\* user was answered 404.
C7_Witness ==
    \E r \in Reqs :
        /\ reqs[r].pc = "notfound"
        /\ reqs[r].kind = "session"
        /\ \E k \in 1..Len(subjects) :
               subjects[k].id = reqs[r].subject_id /\ subjects[k].user_id # reqs[r].user_id

\* C8: a dashboard response has today_sessions equal to the number of the
\* caller's persisted sessions dated in [start of today, start of tomorrow)
\* and today_minutes, today_credits equal to the sums over those sessions.
SessionsToday(uid) ==
    LET lo == (now \div DayLen) * DayLen
        Today(s) == s.user_id = uid /\ lo <= fromisoformat(s.date)
                                    /\ fromisoformat(s.date) < lo + DayLen
    IN  SelectSeq(sessions, Today)

C8_TodayTotals ==
    resp.op = "get_dashboard_data" =>
        LET mine == SessionsToday(current_user(resp.p).id)
        IN  /\ resp.today_sessions = Len(mine)
            /\ resp.today_minutes = SumField(mine, "duration_minutes")
            /\ resp.today_credits = SumField(mine, "credits_earned")

\* C9: a delete-subject that succeeds removes the one Subject named, owned by
\* the caller; list-subjects no longer returns it; every other subject, all
\* grades, all sessions and all users stay as they were.
C9_DeleteRemovesOnlyThatSubject ==
    [][(resp'.op = "delete_subject" /\ resp'.status = 200) =>
          \A p \in Regs, sid \in SubjectIds :
              (Authed(p) /\ delete_subject(p, sid)) =>
                  /\ \E k \in 1..Len(subjects) :
                         /\ subjects[k].id = sid
                         /\ subjects[k].user_id = current_user(p).id
                         /\ subjects' = Without(subjects, k)
                  /\ \A k \in 1..Len(SubjectsOf(subjects', current_user(p).id)) :
                         SubjectsOf(subjects', current_user(p).id)[k].id # sid
                  /\ UNCHANGED <<users, grades, sessions>>]_vars

\* A subject was just deleted while another subject is still there and a
\* grade or a session still refers to the deleted one.
C9_Witness ==
    /\ resp.op = "delete_subject"
    /\ resp.status = 200
    /\ Len(subjects) >= 1
    /\ \/ \E k \in 1..Len(grades) : ~Owns(grades[k].user_id, grades[k].subject_id)
       \/ \E k \in 1..Len(sessions) : ~Owns(sessions[k].user_id, sessions[k].subject_id)

\* C10: what the holder of the token issued to registration p reads holds
\* only records of the user that registration created (id p): the listed
\* subjects, grades and sessions, the profile, and in the dashboard the
\* recent sessions, their subject names and the subject count.
OwnSubjects(uid) == LET Mine(s) == s.user_id = uid IN SelectSeq(subjects, Mine)
OwnSessions(uid) == LET Mine(s) == s.user_id = uid IN SelectSeq(sessions, Mine)

C10_ReadsOnlyOwnRecords ==
    /\ resp.op \in {"get_subjects", "get_grades", "get_study_sessions"} =>
           \A k \in 1..Len(resp.body) : resp.body[k].user_id = resp.p
    /\ resp.op = "get_profile" => resp.body[1].id = resp.p
    /\ resp.op = "get_dashboard_data" =>
           /\ resp.body = RecentSessions(OwnSessions(resp.p), OwnSubjects(resp.p), resp.p)
           /\ resp.total_subjects = Len(OwnSubjects(resp.p))

====
